---- MODULE Spec2Model ----
(***************************************************************************)
(* Model of the booking backend: the calendar-grid functions of            *)
(* appserver/libs/datetime/calendar.py, the persistence layer declared in  *)
(* appserver/apps/calendar/models.py and appserver/apps/account/models.py, *)
(* and the endpoints of appserver/apps/account and appserver/apps/calendar.*)
(***************************************************************************)
EXTENDS Integers, Sequences, FiniteSets, TLC

(***************************************************************************)
(* Bounds of the model.                                                    *)
(***************************************************************************)
\* years MINYEAR-1 .. MINYEAR+EdgeSpan and MAXYEAR-EdgeSpan .. MAXYEAR+1 are explored
EdgeSpan == 2
\* first and last year of the contemporary window (covers 1900, 2000, 2100)
MidFirst == 1896
MidLast == 2104
\* months 1-MonthSlack .. 12+MonthSlack are explored
MonthSlack == 2
\* reservations target the days 1..MaxBookDay of the booking month
MaxBookDay == 5
\* "today" ranges over the last day of the previous month and days 1..MaxToday
MaxToday == 3
\* rows a sequence of raw Booking creations may insert
MaxBookings == 3
\* concurrent signup requests
MaxSignups == 2
\* the clock reads 0..MaxNow minutes when a token is presented
MaxNow == 2

(***************************************************************************)
(* datetime.date, as used by calendar.py                                   *)
(***************************************************************************)
MINYEAR == 1
MAXYEAR == 9999

DAYS_IN_MONTH == <<31, 28, 31, 30, 31, 30, 31, 31, 30, 31, 30, 31>>
DAYS_BEFORE_MONTH == <<0, 31, 59, 90, 120, 151, 181, 212, 243, 273, 304, 334>>

is_leap(y) == y % 4 = 0 /\ (y % 100 # 0 \/ y % 400 = 0)

days_before_year(y) ==
    (y - 1) * 365 + ((y - 1) \div 4) - ((y - 1) \div 100) + ((y - 1) \div 400)

days_before_month(y, m) ==
    DAYS_BEFORE_MONTH[m] + (IF m > 2 /\ is_leap(y) THEN 1 ELSE 0)

\* a date value, or the exception its construction raised
NoDate(e) == [err |-> e, y |-> 0, m |-> 0, d |-> 0]
MkDate(yy, mm, dd) == [err |-> "none", y |-> yy, m |-> mm, d |-> dd]

days_in_month(y, m) == IF m = 2 /\ is_leap(y) THEN 29 ELSE DAYS_IN_MONTH[m]

\* date(year, month, day): range checks of the constructor
Date(yy, mm, dd) ==
    IF ~(MINYEAR <= yy /\ yy <= MAXYEAR) THEN NoDate("ValueError")
    ELSE IF ~(1 <= mm /\ mm <= 12) THEN NoDate("ValueError")
    ELSE IF ~(1 <= dd /\ dd <= days_in_month(yy, mm)) THEN NoDate("ValueError")
    ELSE MkDate(yy, mm, dd)

\* date.toordinal()
toordinal(dt) == days_before_year(dt.y) + days_before_month(dt.y, dt.m) + dt.d

weekday_SundayZero(dt) == toordinal(dt) % 7

\* date.weekday(): 0 = Monday .. 6 = Sunday
weekday(dt) == (toordinal(dt) + 6) % 7

\* date.fromordinal(n)
fromordinal(ord) ==
    LET n0 == ord - 1
        n400 == n0 \div 146097
        r400 == n0 % 146097
        n100 == r400 \div 36524
        r100 == r400 % 36524
        n4 == r100 \div 1461
        r4 == r100 % 1461
        n1 == r4 \div 365
        n == r4 % 365
        yr == n400 * 400 + 1 + n100 * 100 + n4 * 4 + n1
        leapyear == n1 = 3 /\ (n4 # 24 \/ n100 = 3)
        m0 == (n + 50) \div 32
        p0 == DAYS_BEFORE_MONTH[m0] + (IF m0 > 2 /\ leapyear THEN 1 ELSE 0)
        mon == IF p0 > n THEN m0 - 1 ELSE m0
        prec == IF p0 > n
                THEN p0 - (DAYS_IN_MONTH[mon] + (IF mon = 2 /\ leapyear THEN 1 ELSE 0))
                ELSE p0
    IN  IF n1 = 4 \/ n100 = 4 THEN MkDate(yr - 1, 12, 31)
        ELSE MkDate(yr, mon, n - prec + 1)

\* date - timedelta(days = k)
date_sub_days(dt, k) ==
    LET o == toordinal(dt) - k
    IN  IF 0 < o /\ o <= 3652059 THEN fromordinal(o) ELSE NoDate("OverflowError")

(***************************************************************************)
(* appserver/libs/datetime/calendar.py                                     *)
(***************************************************************************)
Raise(e) == [err |-> e, val |-> 0]
Return(v) == [err |-> "none", val |-> v]
RaiseList(e) == [err |-> e, val |-> <<>>]

get_start_weekday_of_month(yy, mm) ==
    LET result == Date(yy, mm, 1)
    IN  IF result.err # "none" THEN Raise(result.err)
        ELSE Return(weekday(result))

get_last_day_of_month(yy, mm) ==
    LET next_month == IF mm = 12 THEN Date(yy + 1, 1, 1) ELSE Date(yy, mm + 1, 1)
    IN  IF next_month.err # "none" THEN Raise(next_month.err)
        ELSE LET result == date_sub_days(next_month, 1)
             IN  IF result.err # "none" THEN Raise(result.err)
                 ELSE Return(result.d)

get_range_days_of_month(yy, mm) ==
    LET sw == get_start_weekday_of_month(yy, mm)
    IN  IF sw.err # "none" THEN RaiseList(sw.err)
        ELSE LET ld == get_last_day_of_month(yy, mm)
             IN  IF ld.err # "none" THEN RaiseList(ld.err)
                 ELSE LET start_weekday == (sw.val + 1) % 7
                          last_day == ld.val
                      IN  Return([i \in 1..start_weekday |-> 0]
                                 \o [i \in 1..last_day |-> i])

(***************************************************************************)
(* State                                                                   *)
(***************************************************************************)
VARIABLES
    year, month,      \* arguments of the grid call
    grid_call,        \* which grid function has been called ("none" before)
    grid_err,         \* exception the call raised ("none" when it returned)
    grid_int,         \* returned integer (weekday or last day)
    grid_days,        \* returned list of get_range_days_of_month
    users,            \* rows of table "users"
    calendars,        \* rows of table "calendars"
    time_slots,       \* rows of table "time_slots"
    bookings,         \* rows of table "bookings"
    today,            \* the current UTC date
    cutoff,           \* granularity of "in the past": "start_of_day" or "instant"
    req,              \* per guest: the reserve call in flight and its outcome
    query,            \* last month-view query answered by the resolver
    candidates,       \* bookable (date, TimeSlot) pairs it returned
    signups,          \* per request: the signup call in flight and its outcome
    call              \* last call of a read endpoint and what it produced

grid_vars == <<year, month, grid_call, grid_err, grid_int, grid_days>>
table_vars == <<users, calendars, time_slots, bookings>>
reserve_vars == <<today, cutoff, req, query, candidates>>
account_vars == <<signups, call>>
vars == <<year, month, grid_call, grid_err, grid_int, grid_days,
          users, calendars, time_slots, bookings,
          today, cutoff, req, query, candidates, signups, call>>

(***************************************************************************)
(* Tables of appserver/apps/account/models.py and                          *)
(* appserver/apps/calendar/models.py                                       *)
(***************************************************************************)
\* the month reservations are made in: March 2024, whose first Monday is the 4th
BookYear == 2024
BookMonth == 3

\* rows of "users": the host and guest of the test fixtures and a second guest
InitUsers ==
    { [id |-> 1, username |-> "puddingcamp", email |-> "puddingcamp@example.com",
       is_host |-> TRUE],
      [id |-> 2, username |-> "puddingcafe", email |-> "puddingcafe@example.com",
       is_host |-> FALSE],
      [id |-> 3, username |-> "puddingshop", email |-> "puddingshop@example.com",
       is_host |-> FALSE] }

\* rows of "calendars": the calendar of the host
InitCalendars == { [id |-> 1, host_id |-> 1] }

\* rows of "time_slots": weekdays are 0 (Monday) .. 6 (Sunday)
InitTimeSlots ==
    { [id |-> 1, calendar_id |-> 1, weekdays |-> {0}],
      [id |-> 2, calendar_id |-> 1, weekdays |-> {0, 2, 4}] }

\* guests who reserve
Guests == {2, 3}

\* UNIQUE constraints declared on table "bookings", each a set of columns: none
BookingUniqueKeys == {}

\* does inserting row break a UNIQUE constraint of the table (IntegrityError)
UniqueViolation(tbl, row) ==
    \E key \in BookingUniqueKeys :
        \E b \in tbl : \A col \in key : b[col] = row[col]

\* autoincremented primary key
NextBookingId(tbl) ==
    IF tbl = {} THEN 1
    ELSE 1 + (CHOOSE i \in {b.id : b \in tbl} : \A b \in tbl : b.id <= i)

Booking(tbl, sid, d, gid) ==
    [id |-> NextBookingId(tbl), time_slot_id |-> sid, when |-> d, guest_id |-> gid]

InsertBooking_Upsert(tbl, row) ==
    {b \in tbl : ~(b.time_slot_id = row.time_slot_id /\ b.when = row.when)} \cup {row}

\* INSERT INTO bookings
InsertBooking(tbl, row) == tbl \cup {row}

(***************************************************************************)
(* Reservation protocol and availability resolver (sections 4.2 - 4.4)     *)
(***************************************************************************)
IdleReq == [pc |-> "idle", time_slot_id |-> 0, when |-> NoDate("unset"), outcome |-> "none"]
NoQuery == [calendar_id |-> 0, y |-> 0, m |-> 0, err |-> "unset"]

Done(r, o) == [r EXCEPT !.pc = "done", !.outcome = o]

\* "strictly in the past relative to now", under either cutoff granularity
InPast(d) ==
    IF cutoff = "start_of_day" THEN toordinal(d) < toordinal(today)
    ELSE toordinal(d) <= toordinal(today)

has_conflict_IgnoresDate(sid, d) == \E b \in bookings : b.time_slot_id = sid

\* 4.3 Booking Conflict Checker
has_conflict(sid, d) == \E b \in bookings : b.time_slot_id = sid /\ b.when = d

ReserveValidate_NoWeekdayCheck(g, sid, d) ==
    /\ req[g].pc = "idle"
    /\ LET when == MkDate(BookYear, BookMonth, d)
           r == [req[g] EXCEPT !.time_slot_id = sid, !.when = when]
       IN  IF {ts \in time_slots : ts.id = sid} = {}
           THEN req' = [req EXCEPT ![g] = Done(r, "NotFoundError")]
           ELSE IF InPast(when)
                THEN req' = [req EXCEPT ![g] = Done(r, "ValidationError")]
                ELSE req' = [req EXCEPT ![g] = [r EXCEPT !.pc = "check"]]
    /\ UNCHANGED <<account_vars, grid_vars, table_vars, today, cutoff, query, candidates>>

\* 4.4 step 1: look the TimeSlot up, validate weekday membership and the date
ReserveValidate(g, sid, d) ==
    /\ req[g].pc = "idle"
    /\ LET when == MkDate(BookYear, BookMonth, d)
           r == [req[g] EXCEPT !.time_slot_id = sid, !.when = when]
           found == {ts \in time_slots : ts.id = sid}
       IN  IF found = {} THEN req' = [req EXCEPT ![g] = Done(r, "NotFoundError")]
           ELSE LET ts == CHOOSE x \in found : TRUE
                IN  IF weekday(when) \notin ts.weekdays \/ InPast(when)
                    THEN req' = [req EXCEPT ![g] = Done(r, "ValidationError")]
                    ELSE req' = [req EXCEPT ![g] = [r EXCEPT !.pc = "check"]]
    /\ UNCHANGED <<account_vars, grid_vars, table_vars, today, cutoff, query, candidates>>

\* 4.4 step 2: conflict check as a fast-path rejection
ReserveCheck(g) ==
    /\ req[g].pc = "check"
    /\ IF has_conflict(req[g].time_slot_id, req[g].when)
       THEN req' = [req EXCEPT ![g] = Done(req[g], "DuplicateBookingError")]
       ELSE req' = [req EXCEPT ![g].pc = "commit"]
    /\ UNCHANGED <<account_vars, grid_vars, table_vars, today, cutoff, query, candidates>>

\* 4.4 steps 3 and 4: persist the row; a uniqueness violation reported by the
\* table becomes DuplicateBookingError
ReserveCommit(g) ==
    /\ req[g].pc = "commit"
    /\ LET row == Booking(bookings, req[g].time_slot_id, req[g].when, g)
       IN  IF UniqueViolation(bookings, row)
           THEN /\ req' = [req EXCEPT ![g] = Done(req[g], "DuplicateBookingError")]
                /\ bookings' = bookings
           ELSE /\ req' = [req EXCEPT ![g] = Done(req[g], "ok")]
                /\ bookings' = InsertBooking(bookings, row)
    /\ UNCHANGED <<account_vars, grid_vars, users, calendars, time_slots, today, cutoff, query, candidates>>

\* section 5: the caller disconnects before the commit; nothing was written
ReserveAbort(g) ==
    /\ req[g].pc \in {"check", "commit"}
    /\ req' = [req EXCEPT ![g] = Done(req[g], "aborted")]
    /\ UNCHANGED <<account_vars, grid_vars, table_vars, today, cutoff, query, candidates>>

\* weekday (0 = Monday) of the i-th entry of the month grid, whose columns start on Sunday
GridWeekday(i) == (((i - 1) % 7) + 6) % 7

\* 4.2 Weekly Availability Resolver: overlay the calendar's TimeSlots on the month grid
AvailabilityResolver(cid, yy, mm) ==
    LET grid == get_range_days_of_month(yy, mm)
    IN  IF grid.err # "none" THEN [err |-> "ValidationError", val |-> {}]
        ELSE IF ~(\E c \in calendars : c.id = cid) THEN [err |-> "NotFoundError", val |-> {}]
        ELSE [err |-> "none",
              val |-> { [when |-> MkDate(yy, mm, grid.val[x[1]]), time_slot_id |-> x[2].id] :
                        x \in { y \in (1..Len(grid.val)) \X {ts \in time_slots : ts.calendar_id = cid} :
                                  /\ grid.val[y[1]] # 0
                                  /\ GridWeekday(y[1]) \in y[2].weekdays
                                  /\ ~has_conflict(y[2].id, MkDate(yy, mm, grid.val[y[1]]))
                                  /\ ~InPast(MkDate(yy, mm, grid.val[y[1]])) } } ]

\* months of BookYear a month view is requested for
QueryMonths == {BookMonth - 1, BookMonth, 13}

Resolve(cid, mm) ==
    /\ LET r == AvailabilityResolver(cid, BookYear, mm)
       IN  /\ query' = [calendar_id |-> cid, y |-> BookYear, m |-> mm, err |-> r.err]
           /\ candidates' = r.val
    /\ UNCHANGED <<account_vars, grid_vars, table_vars, today, cutoff, req>>

\* raw creation of a Booking row: session.add(Booking(...)); commit
CreateBooking(sid, d, gid) ==
    /\ Cardinality(bookings) < MaxBookings
    /\ LET row == Booking(bookings, sid, MkDate(BookYear, BookMonth, d), gid)
       IN  /\ ~UniqueViolation(bookings, row)
           /\ bookings' = InsertBooking(bookings, row)
    /\ UNCHANGED <<account_vars, grid_vars, users, calendars, time_slots, reserve_vars>>

(***************************************************************************)
(* appserver/apps/account: signup                                          *)
(***************************************************************************)
\* hash_password: the hash remembers which plain text it was made from
hash_password(plain) == [hashed |-> TRUE, text |-> plain]

\* rows of "users" with every column the endpoints read: the host and the
\* guest of the test fixtures
AccountUsers ==
    { [id |-> 1, username |-> "puddingcamp", email |-> "puddingcamp@example.com",
       display_name |-> "puddingcamp", password |-> hash_password("testtest"),
       is_host |-> TRUE],
      [id |-> 2, username |-> "puddingcafe", email |-> "puddingcafe@example.com",
       display_name |-> "puddingcafe", password |-> hash_password("testtest"),
       is_host |-> FALSE] }

\* "users" declared without uq_email
UserUniqueKeys_NoEmail == {{"username"}}

\* UNIQUE constraints of "users": username (unique=True) and uq_email
UserUniqueKeys == {{"username"}, {"email"}}

\* the UNIQUE constraints of keys that inserting row into tbl breaks
ViolatedKeys(tbl, row, keys) ==
    {key \in keys : \E r \in tbl : \A col \in key : r[col] = row[col]}

\* autoincremented primary key
NextId(tbl) ==
    IF tbl = {} THEN 1
    ELSE 1 + (CHOOSE i \in {r.id : r \in tbl} : \A r \in tbl : r.id <= i)

SignupProcs == 1..MaxSignups

\* payloads that passed SignupPayload validation
SignupUsernames == {"puddingcamp", "test", "test2"}
SignupEmails ==
    {"puddingcamp@example.com", "puddingcafe@example.com", "test@example.com",
     "test2@example.com"}
SignupDisplayNames == {"test", "tester"}
SignupPassword == [hashed |-> FALSE, text |-> "test1234"]

IdleSignup ==
    [pc |-> "idle", username |-> "", email |-> "", display_name |-> "",
     at |-> "none", outcome |-> "none", user_id |-> 0]

NoCall ==
    [op |-> "none", username |-> "", password |-> "", viewer |-> 0,
     outcome |-> "none", rows |-> {}, token |-> {}, cookie |-> {}, view |-> {},
     now |-> 0, auth |-> {},
     payload |-> [display_name |-> "", email |-> "", password |-> ""]]

NoAccountCalls ==
    /\ signups = [p \in SignupProcs |-> IdleSignup]
    /\ call = NoCall

\* the call ends in exception e, raised at step s.pc
SignupRaise(s, e) == [s EXCEPT !.pc = "done", !.at = s.pc, !.outcome = e]

\* a User built with a generated display_name instead of the payload's
SignupUser_OwnDisplayName(tbl, s) ==
    [id |-> NextId(tbl), username |-> s.username, email |-> s.email,
     display_name |-> "generated", password |-> SignupPassword,
     is_host |-> FALSE]

\* User.model_validate(payload.model_dump()): is_host takes its default
SignupUser(tbl, s) ==
    [id |-> NextId(tbl), username |-> s.username, email |-> s.email,
     display_name |-> s.display_name, password |-> SignupPassword,
     is_host |-> FALSE]

\* every IntegrityError reported as a duplicated username
SignupIntegrityError_AlwaysUsername(key) == "DuplicatedUsernameError"

\* except IntegrityError as e: the constraint the database names in e.orig
SignupIntegrityError(key) ==
    IF "email" \in key THEN "DuplicatedEmailError" ELSE "DuplicatedUsernameError"

\* signup counting the rows with its email before those with its username
SignupCheckUsername_EmailFirst(p, u, e, d) ==
    /\ signups[p].pc = "idle"
    /\ LET s == [IdleSignup EXCEPT !.pc = "check_username", !.username = u,
                                   !.email = e, !.display_name = d]
       IN  signups' = [signups EXCEPT ![p] =
               IF Cardinality({r \in users : r.email = e}) > 0
               THEN SignupRaise(s, "DuplicatedEmailError")
               ELSE IF Cardinality({r \in users : r.username = u}) > 0
               THEN SignupRaise(s, "DuplicatedUsernameError")
               ELSE [s EXCEPT !.pc = "check_email"]]
    /\ UNCHANGED <<grid_vars, table_vars, reserve_vars, call>>

\* signup without its username pre-check
SignupCheckUsername_NoCheck(p, u, e, d) ==
    /\ signups[p].pc = "idle"
    /\ signups' = [signups EXCEPT ![p] =
           [IdleSignup EXCEPT !.pc = "check_email", !.username = u,
                              !.email = e, !.display_name = d]]
    /\ UNCHANGED <<grid_vars, table_vars, reserve_vars, call>>

\* the request arrives and the first query counts the rows with its username
SignupCheckUsername(p, u, e, d) ==
    /\ signups[p].pc = "idle"
    /\ LET s == [IdleSignup EXCEPT !.pc = "check_username", !.username = u,
                                   !.email = e, !.display_name = d]
           count == Cardinality({r \in users : r.username = u})
       IN  signups' = [signups EXCEPT ![p] =
               IF count > 0 THEN SignupRaise(s, "DuplicatedUsernameError")
               ELSE [s EXCEPT !.pc = "check_email"]]
    /\ UNCHANGED <<grid_vars, table_vars, reserve_vars, call>>

\* signup without its email pre-check
SignupCheckEmail_NoCheck(p) ==
    /\ signups[p].pc = "check_email"
    /\ signups' = [signups EXCEPT ![p] = [@ EXCEPT !.pc = "commit"]]
    /\ UNCHANGED <<grid_vars, table_vars, reserve_vars, call>>

\* the second query counts the rows with its email
SignupCheckEmail(p) ==
    /\ signups[p].pc = "check_email"
    /\ LET count == Cardinality({r \in users : r.email = signups[p].email})
       IN  signups' = [signups EXCEPT ![p] =
               IF count > 0 THEN SignupRaise(@, "DuplicatedEmailError")
               ELSE [@ EXCEPT !.pc = "commit"]]
    /\ UNCHANGED <<grid_vars, table_vars, reserve_vars, call>>

\* session.add(user); commit: the INSERT either lands or breaks a constraint
SignupCommit(p) ==
    /\ signups[p].pc = "commit"
    /\ LET row == SignupUser(users, signups[p])
           broken == ViolatedKeys(users, row, UserUniqueKeys)
       IN  IF broken = {}
           THEN /\ users' = users \cup {row}
                /\ signups' = [signups EXCEPT ![p] =
                       [@ EXCEPT !.pc = "done", !.at = "commit", !.outcome = "ok",
                                 !.user_id = row.id]]
           ELSE /\ users' = users
                /\ \E key \in broken :
                       signups' = [signups EXCEPT ![p] =
                           SignupRaise(@, SignupIntegrityError(key))]
    /\ UNCHANGED <<grid_vars, calendars, time_slots, bookings, reserve_vars, call>>

(***************************************************************************)
(* appserver/apps/account: user_detail and login                           *)
(***************************************************************************)
\* the read endpoint op was called with these arguments and ended in outcome
Called(op, username, password, viewer, outcome) ==
    [NoCall EXCEPT !.op = op, !.username = username, !.password = password,
                   !.viewer = viewer, !.outcome = outcome]

\* the select without its where clause
UserByUsername_Any(tbl, username) == tbl

\* result.scalar_one_or_none() of select(User).where(User.username == username):
\* the rows found, none or one under the UNIQUE constraint
UserByUsername(tbl, username) == {r \in tbl : r.username = username}

\* user_detail: the stored User, or HTTPException(404)
UserDetail(username) ==
    /\ LET found == UserByUsername(users, username)
       IN  call' = IF found # {}
                   THEN [Called("user_detail", username, "", 0, "ok") EXCEPT !.rows = found]
                   ELSE Called("user_detail", username, "", 0, "HTTP_404_NOT_FOUND")
    /\ UNCHANGED <<grid_vars, table_vars, reserve_vars, signups>>

\* verify_password: pwdlib raises UnknownHashError on a string that is no hash
verify_password(plain, stored) ==
    IF ~stored.hashed THEN [err |-> "UnknownHashError", val |-> FALSE]
    ELSE Return(stored.text = plain)

\* create_access_token(data): the claims the JWT carries
create_access_token(user) ==
    [sub |-> user.username, displayname |-> user.display_name, is_host |-> user.is_host]

\* login: look the user up, verify the password against user.hashed_password,
\* then put the token in the body and in the auth cookie
Login(username, password) ==
    /\ LET found == UserByUsername(users, username)
           user == CHOOSE r \in found : TRUE
           raise(e) == Called("login", username, password, 0, e)
       IN  call' =
             IF found = {} THEN raise("UserNotFoundError")
             ELSE IF "hashed_password" \notin DOMAIN user THEN raise("AttributeError")
             ELSE LET is_valid == verify_password(password, user.hashed_password)
                  IN  IF is_valid.err # "none" THEN raise(is_valid.err)
                      ELSE IF ~is_valid.val THEN raise("PasswordMismatchError")
                      ELSE [raise("ok") EXCEPT !.token = {create_access_token(user)},
                                               !.cookie = {create_access_token(user)}]
    /\ UNCHANGED <<grid_vars, table_vars, reserve_vars, signups>>

(***************************************************************************)
(* appserver/apps/account/deps.py: who the request's token belongs to      *)
(***************************************************************************)
ACCESS_TOKEN_EXPIRE_MINUTES == 30

\* a JWT as the request carries it: signed says whether its signature is one
\* of SECRET_KEY, exp is its expiry in minutes
Token(signed, sub, exp) == [signed |-> signed, sub |-> sub, exp |-> exp]

\* decode_token: jwt.decode checks the signature, then the exp claim
decode_token(token, now) ==
    IF ~token.signed THEN [err |-> "JWTError", val |-> token]
    ELSE IF token.exp < now THEN [err |-> "ExpiredSignatureError", val |-> token]
    ELSE Return(token)

\* the dependency op was called at time now with the cookie auth, a set
\* holding the token or nothing
Resolved(op, auth, now, outcome, rows) ==
    [NoCall EXCEPT !.op = op, !.auth = auth, !.now = now,
                   !.outcome = outcome, !.rows = rows]

\* names the try statement leaves unbound when decode_token raised nothing
\* (the target of "except Exception as e" exists only inside its handler)
GetUserUnbound == {"e"}

\* get_user(auth_token, db_session): the User of the token, {} for None
get_user(auth, now) ==
    IF auth = {} THEN Return({})
    ELSE LET auth_token == CHOOSE t \in auth : TRUE
             decoded == decode_token(auth_token, now)
         IN  IF decoded.err # "none" THEN [err |-> "InvalidTokenError", val |-> {}]
             ELSE IF now + ACCESS_TOKEN_EXPIRE_MINUTES < decoded.val.exp
                  \* raise ExpiredTokenError() from e
                  THEN IF "e" \in GetUserUnbound
                       THEN [err |-> "UnboundLocalError", val |-> {}]
                       ELSE [err |-> "ExpiredTokenError", val |-> {}]
             ELSE Return(UserByUsername(users, decoded.val.sub))

GetUser(auth, now) ==
    /\ call.op = "none"
    /\ LET user == get_user(auth, now)
       IN  call' = Resolved("get_user", auth, now,
                            IF user.err = "none" THEN "ok" ELSE user.err, user.val)
    /\ UNCHANGED <<grid_vars, table_vars, reserve_vars, signups>>

\* get_current_user: no user is UserNotFoundError
GetCurrentUser(auth, now) ==
    /\ call.op = "none"
    /\ LET user == get_user(auth, now)
       IN  call' = IF user.err # "none"
                   THEN Resolved("get_current_user", auth, now, user.err, {})
                   ELSE IF user.val = {}
                   THEN Resolved("get_current_user", auth, now, "UserNotFoundError", {})
                   ELSE Resolved("get_current_user", auth, now, "ok", user.val)
    /\ UNCHANGED <<grid_vars, table_vars, reserve_vars, signups>>

\* get_current_user_optional: whatever get_user gives
GetCurrentUserOptional(auth, now) ==
    /\ call.op = "none"
    /\ LET user == get_user(auth, now)
       IN  call' = Resolved("get_current_user_optional", auth, now,
                            IF user.err = "none" THEN "ok" ELSE user.err, user.val)
    /\ UNCHANGED <<grid_vars, table_vars, reserve_vars, signups>>

(***************************************************************************)
(* appserver/apps/account: update_user                                     *)
(***************************************************************************)
\* a row of "users" with its updated_at column, set to minute t
Touched(r, t) ==
    [f \in DOMAIN r \cup {"updated_at"} |-> IF f = "updated_at" THEN t ELSE r[f]]

\* the rows of the fixtures as inserted at minute 0
ProfileUsers == {Touched(r, 0) : r \in AccountUsers}

\* UpdateUserPayload: a field holds "" when the request did not set it;
\* password_again repeats password
UpdateDisplayNames == {"", "pudding"}
UpdateEmails == {"", "puddingcafe@example.com", "pudding@example.com"}
UpdatePasswords == {"", "newpass12"}
UpdateUserPayloads ==
    [display_name : UpdateDisplayNames, email : UpdateEmails, password : UpdatePasswords]

\* a dump that keeps the password
updated_data_WithPassword(payload) ==
    {f \in {"display_name", "email", "password"} : payload[f] # ""}

\* payload.model_dump(exclude_unset=True, exclude={"password", "password_again"}):
\* the columns the UPDATE sets
updated_data(payload) ==
    {f \in {"display_name", "email", "password"} : payload[f] # ""} \ {"password"}

\* the value the UPDATE writes to column f
UpdateValue(payload, f) ==
    IF f = "password" THEN [hashed |-> FALSE, text |-> payload.password]
    ELSE payload[f]

\* the row after UPDATE ... SET: the columns of the dump, and updated_at by
\* its onupdate
UpdatedRow(r, payload, now) ==
    [f \in DOMAIN r |->
        IF f \in updated_data(payload) THEN UpdateValue(payload, f)
        ELSE IF f = "updated_at" THEN now
        ELSE r[f]]

\* update_user: user is the row get_current_user resolved, id viewer; the
\* clock has moved on since the last write
UpdateUser(viewer, payload, now) ==
    /\ \A r \in users : r.updated_at < now
    /\ \E user \in users :
          /\ user.id = viewer
          /\ LET targets == {r \in users : r.username = user.username}
                 rest == users \ targets
                 written == {UpdatedRow(r, payload, now) : r \in targets}
                 done(e) == [Called("update_user", user.username, "", viewer, e)
                                EXCEPT !.now = now, !.payload = payload]
             IN  IF \E w \in written : ViolatedKeys(rest, w, UserUniqueKeys) # {}
                 THEN /\ users' = users
                      /\ call' = done("IntegrityError")
                 ELSE /\ users' = rest \cup written
                      /\ call' = [done("ok") EXCEPT !.rows = {user}]
    /\ UNCHANGED <<grid_vars, calendars, time_slots, bookings, reserve_vars, signups>>

(***************************************************************************)
(* appserver/apps/calendar: Calendar rows and host_calendar_detail         *)
(***************************************************************************)
\* "calendars" declared without unique=True on host_id
CalendarUniqueKeys_None == {}

\* UNIQUE constraints of "calendars": host_id (unique=True)
CalendarUniqueKeys == {{"host_id"}}

\* Calendar(host_id=..., topics=..., google_calendar_id=...)
Calendar(tbl, host_id) ==
    [id |-> NextId(tbl), host_id |-> host_id, topics |-> <<"puddingcamp", "puddingcamp2">>,
     description |-> "", google_calendar_id |-> "1234567890"]

\* creation of a Calendar row: session.add(Calendar(...)); commit
CreateCalendar(host_id) ==
    /\ LET row == Calendar(calendars, host_id)
       IN  IF ViolatedKeys(calendars, row, CalendarUniqueKeys) = {}
           THEN /\ calendars' = calendars \cup {row}
                /\ call' = Called("create_calendar", "", "", host_id, "ok")
           ELSE /\ calendars' = calendars
                /\ call' = Called("create_calendar", "", "", host_id, "IntegrityError")
    /\ UNCHANGED <<grid_vars, users, time_slots, bookings, reserve_vars, signups>>

\* the two response schemas of host_calendar_detail
CalendarOut(calendar) ==
    [kind |-> "CalendarOut", calendar_id |-> calendar.id,
     keys |-> {"topics", "description"}]
CalendarDetailOut(calendar) ==
    [kind |-> "CalendarDetailOut", calendar_id |-> calendar.id,
     keys |-> {"topics", "description", "google_calendar_id"}]

\* names bound where line 32 of calendar/endpoints.py runs: the parameters,
\* the locals assigned above it and the imports of the module
HostCalendarDetailNames ==
    {"host_username", "user", "session", "stmt", "result", "host", "calendar",
     "APIRouter", "status", "select", "User", "Calendar", "DbSessionDep",
     "CurrentUserOptionalDep", "CalendarDetailOut", "CalendarOut"}

\* host_calendar_detail: viewer is the id of the authenticated User, 0 for None
HostCalendarDetail(host_username, viewer) ==
    /\ LET found == UserByUsername(users, host_username)
           host == CHOOSE r \in found : TRUE
           cals == {c \in calendars : c.host_id = host.id}
           calendar == CHOOSE c \in cals : TRUE
           raise(e) == Called("host_calendar_detail", host_username, "", viewer, e)
       IN  call' =
             \* host is None: host.id
             IF found = {} THEN raise("AttributeError")
             \* user is not None and user.id == host_id
             ELSE IF viewer # 0 /\ "host_id" \notin HostCalendarDetailNames
                  THEN raise("NameError")
             ELSE IF viewer # 0 /\ viewer = host.id
                  THEN IF cals = {} THEN raise("ValidationError")
                       ELSE [raise("ok") EXCEPT !.view = {CalendarDetailOut(calendar)}]
             \* CalendarOut.model_validate(calendar), calendar None when no row
             ELSE IF cals = {} THEN raise("ValidationError")
             ELSE [raise("ok") EXCEPT !.view = {CalendarOut(calendar)}]
    /\ UNCHANGED <<grid_vars, table_vars, reserve_vars, signups>>

(***************************************************************************)
(* Specifications                                                          *)
(***************************************************************************)
Years ==
    ((MINYEAR - 1)..(MINYEAR + EdgeSpan))
        \cup (MidFirst..MidLast)
        \cup ((MAXYEAR - EdgeSpan)..(MAXYEAR + 1))
Months == (1 - MonthSlack)..(12 + MonthSlack)

\* the day before the booking month and its first days
Todays ==
    {date_sub_days(MkDate(BookYear, BookMonth, 1), 1)}
        \cup {MkDate(BookYear, BookMonth, d) : d \in 1..MaxToday}

\* a booking made earlier: TimeSlot 2 on Friday 1 March
SeedBooking ==
    [id |-> 1, time_slot_id |-> 2, when |-> MkDate(BookYear, BookMonth, 1), guest_id |-> 3]

NoGridCall ==
    /\ year = BookYear
    /\ month = BookMonth
    /\ grid_call = "none"
    /\ grid_err = "none"
    /\ grid_int = 0
    /\ grid_days = <<>>

InitTables ==
    /\ users = InitUsers
    /\ calendars = InitCalendars
    /\ time_slots = InitTimeSlots

NoRequests ==
    /\ req = [g \in Guests |-> IdleReq]
    /\ query = NoQuery
    /\ candidates = {}

InitGrid ==
    /\ year \in Years
    /\ month \in Months
    /\ grid_call = "none"
    /\ grid_err = "none"
    /\ grid_int = 0
    /\ grid_days = <<>>
    /\ InitTables
    /\ bookings = {}
    /\ today = MkDate(BookYear, BookMonth, 1)
    /\ cutoff = "start_of_day"
    /\ NoRequests
    /\ NoAccountCalls

CallStartWeekday ==
    /\ grid_call = "none"
    /\ LET r == get_start_weekday_of_month(year, month)
       IN  /\ grid_err' = r.err
           /\ grid_int' = r.val
    /\ grid_call' = "get_start_weekday_of_month"
    /\ UNCHANGED <<account_vars, year, month, grid_days, table_vars, reserve_vars>>

CallLastDay ==
    /\ grid_call = "none"
    /\ LET r == get_last_day_of_month(year, month)
       IN  /\ grid_err' = r.err
           /\ grid_int' = r.val
    /\ grid_call' = "get_last_day_of_month"
    /\ UNCHANGED <<account_vars, year, month, grid_days, table_vars, reserve_vars>>

CallRangeDays ==
    /\ grid_call = "none"
    /\ LET r == get_range_days_of_month(year, month)
       IN  /\ grid_err' = r.err
           /\ grid_days' = r.val
    /\ grid_call' = "get_range_days_of_month"
    /\ UNCHANGED <<account_vars, year, month, grid_int, table_vars, reserve_vars>>

NextGrid == CallStartWeekday \/ CallLastDay \/ CallRangeDays

SpecGrid == InitGrid /\ [][NextGrid]_vars

\* the persistence layer under raw Booking creations
InitPersist ==
    /\ NoGridCall
    /\ InitTables
    /\ bookings = {}
    /\ today = MkDate(BookYear, BookMonth, 1)
    /\ cutoff = "start_of_day"
    /\ NoRequests
    /\ NoAccountCalls

NextPersist ==
    \E sid \in {ts.id : ts \in time_slots}, d \in 1..MaxBookDay, gid \in Guests :
        CreateBooking(sid, d, gid)

SpecPersist == InitPersist /\ [][NextPersist]_vars

\* two guests reserving concurrently while month views are requested
InitReserve ==
    /\ NoGridCall
    /\ InitTables
    /\ bookings \in {{}, {SeedBooking}}
    /\ today \in Todays
    /\ cutoff \in {"start_of_day", "instant"}
    /\ NoRequests
    /\ NoAccountCalls

NextReserve ==
    \/ \E g \in Guests, sid \in 1..3, d \in 1..MaxBookDay : ReserveValidate(g, sid, d)
    \/ \E g \in Guests : ReserveCheck(g)
    \/ \E g \in Guests : ReserveCommit(g)
    \/ \E g \in Guests : ReserveAbort(g)
    \/ \E cid \in 1..2, mm \in QueryMonths : Resolve(cid, mm)

SpecReserve == InitReserve /\ [][NextReserve]_vars

\* signup requests racing each other on the table of the fixtures
InitSignup ==
    /\ NoGridCall
    /\ users = AccountUsers
    /\ calendars = {}
    /\ time_slots = {}
    /\ bookings = {}
    /\ today = MkDate(BookYear, BookMonth, 1)
    /\ cutoff = "start_of_day"
    /\ NoRequests
    /\ NoAccountCalls

NextSignup ==
    \/ \E p \in SignupProcs, u \in SignupUsernames, e \in SignupEmails,
          d \in SignupDisplayNames : SignupCheckUsername(p, u, e, d)
    \/ \E p \in SignupProcs : SignupCheckEmail(p)
    \/ \E p \in SignupProcs : SignupCommit(p)

SpecSignup == InitSignup /\ [][NextSignup]_vars

\* the read endpoints and Calendar creations over the rows of the fixtures
LookupUsernames == {"puddingcamp", "puddingcafe", "nobody"}
LoginPasswords == {"testtest", "wrongpass"}
\* the authenticated User of the request, 0 for an anonymous one
Viewers == {0} \cup {u.id : u \in users}

InitEndpoints ==
    /\ NoGridCall
    /\ users \in SUBSET AccountUsers
    /\ calendars = {}
    /\ time_slots = {}
    /\ bookings = {}
    /\ today = MkDate(BookYear, BookMonth, 1)
    /\ cutoff = "start_of_day"
    /\ NoRequests
    /\ NoAccountCalls

\* the minutes at which tokens are presented and the expiries they carry:
\* around the clock and around ACCESS_TOKEN_EXPIRE_MINUTES past it
Times == 0..MaxNow
TokenExps ==
    (0..(MaxNow + 1))
        \cup ((ACCESS_TOKEN_EXPIRE_MINUTES - 1)..(MaxNow + ACCESS_TOKEN_EXPIRE_MINUTES + 1))
\* the auth_token cookie: absent, or a token with or without a good signature
AuthTokens ==
    {{}} \cup {{Token(sg, sub, exp)} :
                  sg \in BOOLEAN, sub \in LookupUsernames, exp \in TokenExps}

NextEndpoints ==
    \/ \E u \in LookupUsernames : UserDetail(u)
    \/ \E u \in LookupUsernames, pw \in LoginPasswords : Login(u, pw)
    \/ \E h \in {u.id : u \in users} : CreateCalendar(h)
    \/ \E u \in LookupUsernames, v \in Viewers : HostCalendarDetail(u, v)

SpecEndpoints == InitEndpoints /\ [][NextEndpoints]_vars

\* requests presenting their cookie to a dependency, and authenticated users
\* updating their profile, over the rows of the fixtures
InitSession ==
    /\ NoGridCall
    /\ users \in SUBSET ProfileUsers
    /\ calendars = {}
    /\ time_slots = {}
    /\ bookings = {}
    /\ today = MkDate(BookYear, BookMonth, 1)
    /\ cutoff = "start_of_day"
    /\ NoRequests
    /\ NoAccountCalls

NextSession ==
    \/ \E a \in AuthTokens, t \in Times : GetUser(a, t)
    \/ \E a \in AuthTokens, t \in Times : GetCurrentUser(a, t)
    \/ \E a \in AuthTokens, t \in Times : GetCurrentUserOptional(a, t)
    \/ \E v \in Viewers \ {0}, p \in UpdateUserPayloads, t \in Times :
          UpdateUser(v, p, t)

SpecSession == InitSession /\ [][NextSession]_vars

(***************************************************************************)
(* Reference calendar facts the grid claims are stated against             *)
(***************************************************************************)
\* Gregorian leap-year rule
RefLeapYear(y) == (y % 4 = 0 /\ y % 100 # 0) \/ y % 400 = 0

\* number of days of a month, by the month-length rhyme
RefDaysInMonth(y, m) ==
    IF m = 2 THEN (IF RefLeapYear(y) THEN 29 ELSE 28)
    ELSE IF m \in {4, 6, 9, 11} THEN 30 ELSE 31

\* Zeller's congruence for the 1st of a month, rebased to 0 = Monday .. 6 = Sunday
RefWeekdayOfFirst(y, m) ==
    LET mz == IF m >= 3 THEN m ELSE m + 12
        yz == IF m >= 3 THEN y ELSE y - 1
        k == yz % 100
        j == yz \div 100
        h == (1 + ((13 * (mz + 1)) \div 5) + k + (k \div 4) + (j \div 4) + 5 * j) % 7
    IN  (h + 5) % 7

\* a (year, month) the date type can represent, with month in 1..12
ValidYearMonth == year \in MINYEAR..MAXYEAR /\ month \in 1..12

CalledRange == grid_call = "get_range_days_of_month"
CalledLast == grid_call = "get_last_day_of_month"
CalledStart == grid_call = "get_start_weekday_of_month"

\* the (padding, length) a call of get_range_days_of_month(y, m) must have produced
RangeExample(y, m, padding, total) ==
    (CalledRange /\ year = y /\ month = m) =>
        /\ grid_err = "none"
        /\ Len(grid_days) = total
        /\ \A i \in 1..padding : grid_days[i] = 0
        /\ grid_days[padding + 1] = 1

\* C1: for every valid (year, month) get_range_days_of_month returns a list of
\* length display_start + last_day whose first display_start entries are 0,
\* display_start = (get_start_weekday_of_month + 1) mod 7; with the five
\* examples of the test suite.
C1_GridLengthAndPadding ==
    /\ (CalledRange /\ ValidYearMonth) =>
          /\ grid_err = "none"
          /\ get_last_day_of_month(year, month).err = "none"
          /\ LET display_start == (get_start_weekday_of_month(year, month).val + 1) % 7
                 last_day == get_last_day_of_month(year, month).val
             IN  /\ Len(grid_days) = display_start + last_day
                 /\ \A i \in 1..display_start : grid_days[i] = 0
                 /\ (RefWeekdayOfFirst(year, month) = 6 => display_start = 0)
                 /\ (RefWeekdayOfFirst(year, month) = 5 => display_start = 6)
    /\ RangeExample(2024, 3, 5, 36)
    /\ RangeExample(2024, 2, 4, 33)
    /\ RangeExample(2025, 2, 6, 34)
    /\ RangeExample(2024, 4, 1, 31)
    /\ RangeExample(2024, 12, 0, 31)

\* C2: for every valid (year, month) the entries after the padding are exactly
\* 1, 2, ..., last_day in ascending order: the entry at index display_start is
\* 1, the last entry is last_day and no entry after the padding is 0.
C2_GridDaysAfterPadding ==
    (CalledRange /\ ValidYearMonth) =>
        /\ grid_err = "none"
        /\ LET display_start == (RefWeekdayOfFirst(year, month) + 1) % 7
               last_day == RefDaysInMonth(year, month)
           IN  /\ Len(grid_days) = display_start + last_day
               /\ \A d \in 1..last_day : grid_days[display_start + d] = d
               /\ grid_days[display_start + 1] = 1
               /\ grid_days[Len(grid_days)] = last_day
               /\ \A i \in (display_start + 1)..Len(grid_days) : grid_days[i] # 0

\* C3: for every valid (year, month) get_last_day_of_month returns the number
\* of days of that month: in 28..31, 31 for December, 29 for February exactly
\* in leap years and 28 otherwise; (2024,2) -> 29, (2025,2) -> 28,
\* (2024,4) -> 30, (2024,12) -> 31.
C3_LastDayIsDaysInMonth ==
    (CalledLast /\ ValidYearMonth) =>
        /\ grid_err = "none"
        /\ grid_int \in 28..31
        /\ grid_int = RefDaysInMonth(year, month)
        /\ (month = 12 => grid_int = 31)
        /\ (month = 2 => (grid_int = 29 <=> RefLeapYear(year)))
        /\ (month = 2 /\ ~RefLeapYear(year) => grid_int = 28)
        /\ (year = 2024 /\ month = 2 => grid_int = 29)
        /\ (year = 2025 /\ month = 2 => grid_int = 28)
        /\ (year = 2024 /\ month = 4 => grid_int = 30)
        /\ (year = 2024 /\ month = 12 => grid_int = 31)

\* C4: for every valid (year, month) get_start_weekday_of_month returns an
\* integer in 0..6, the weekday of the 1st of the month with 0 = Monday and
\* 6 = Sunday; (2024,12) -> 6 and (2025,2) -> 5.
C4_StartWeekdayOfFirst ==
    (CalledStart /\ ValidYearMonth) =>
        /\ grid_err = "none"
        /\ grid_int \in 0..6
        /\ grid_int = RefWeekdayOfFirst(year, month)
        /\ (year = 2024 /\ month = 12 => grid_int = 6)
        /\ (year = 2025 /\ month = 2 => grid_int = 5)

\* a Sunday-first month and a Saturday-first month have been computed
C4_Witness ==
    /\ CalledStart
    /\ grid_err = "none"
    /\ year = 2024
    /\ month = 12
    /\ grid_int = 6

\* C5: each of the three grid functions rejects every month outside 1..12
\* (including 0 and 13) with a validation error and returns no value for it.
C5_RejectsOutOfRangeMonth ==
    (grid_call # "none" /\ year \in MINYEAR..MAXYEAR /\ month \notin 1..12) =>
        grid_err = "ValueError"

(***************************************************************************)
(* Persistence and reservation claims                                      *)
(***************************************************************************)
\* weekday (0 = Monday) of any date, from Zeller's congruence for the 1st
RefWeekday(dt) == (RefWeekdayOfFirst(dt.y, dt.m) + dt.d - 1) % 7

\* calendar order of two dates
DateBefore(a, b) ==
    \/ a.y < b.y
    \/ a.y = b.y /\ a.m < b.m
    \/ a.y = b.y /\ a.m = b.m /\ a.d < b.d

RowsFor(tbl, sid, d) == {b \in tbl : b.time_slot_id = sid /\ b.when = d}

\* C6: in every reachable state of the persistence layer at most one Booking
\* row exists for any (time_slot_id, when) pair, whatever Booking creations
\* have been performed.
C6_AtMostOneBookingPerSlotDate ==
    \A b1 \in bookings : \A b2 \in bookings :
        (b1.time_slot_id = b2.time_slot_id /\ b1.when = b2.when) => b1 = b2

\* a reserve call that passed validation and ran to its end
Completed(g) ==
    /\ req[g].pc = "done"
    /\ req[g].outcome \in {"ok", "DuplicateBookingError"}

\* C7: when two reserve calls of different guests target the same free
\* (TimeSlot, date), in every interleaving exactly one succeeds, the other
\* receives DuplicateBookingError, and afterwards exactly one Booking row
\* exists for the pair.
C7_ConcurrentReserveOneWinner ==
    \A g1 \in Guests : \A g2 \in Guests :
        ( /\ g1 # g2
          /\ Completed(g1)
          /\ Completed(g2)
          /\ req[g1].time_slot_id = req[g2].time_slot_id
          /\ req[g1].when = req[g2].when
          /\ ~( req[g1].time_slot_id = SeedBooking.time_slot_id
                /\ req[g1].when = SeedBooking.when ) )
        => /\ {req[g1].outcome, req[g2].outcome} = {"ok", "DuplicateBookingError"}
           /\ Cardinality(RowsFor(bookings, req[g1].time_slot_id, req[g1].when)) = 1

\* the TimeSlot a request names exists and does not recur on the weekday of its date
WeekdayMismatch(r) ==
    \E ts \in time_slots : ts.id = r.time_slot_id /\ RefWeekday(r.when) \notin ts.weekdays

\* C8: a reserve on a date whose weekday is not in the TimeSlot's weekdays is
\* rejected with ValidationError and leaves the set of Booking rows unchanged.
C8_WeekdayMismatchRejected ==
    [][ \A g \in Guests :
          (req[g].pc = "idle" /\ req'[g].pc # "idle" /\ WeekdayMismatch(req'[g]))
          => /\ req'[g].pc = "done"
             /\ req'[g].outcome = "ValidationError"
             /\ bookings' = bookings ]_vars

\* a reserve for a future Tuesday on the Monday-only TimeSlot has been rejected
C8_Witness ==
    \E g \in Guests :
        /\ req[g].pc = "done"
        /\ req[g].outcome = "ValidationError"
        /\ req[g].time_slot_id = 1
        /\ req[g].when = MkDate(BookYear, BookMonth, 5)
        /\ DateBefore(today, req[g].when)
        /\ WeekdayMismatch(req[g])

\* the (date, TimeSlot) pairs of a month whose weekday matches and that have no Booking
MatchingUnbooked(cid, yy, mm) ==
    { p \in [when : {MkDate(yy, mm, d) : d \in 1..RefDaysInMonth(yy, mm)},
             time_slot_id : {ts.id : ts \in {t \in time_slots : t.calendar_id = cid}}] :
        /\ \E ts \in time_slots : ts.id = p.time_slot_id /\ RefWeekday(p.when) \in ts.weekdays
        /\ RowsFor(bookings, p.time_slot_id, p.when) = {} }

\* a month-view query for an existing calendar and a month in 1..12
AnswerableQuery(cid, mm) == (\E c \in calendars : c.id = cid) /\ mm \in 1..12

\* this step answers the month-view query (cid, mm)
Answers(cid, mm) ==
    /\ req' = req
    /\ query'.calendar_id = cid
    /\ query'.m = mm
    /\ Resolve(cid, mm)

\* C9 as stated: the resolver returns exactly the pairs whose date lies in the
\* month, whose weekday is in the slot's weekdays and that have no Booking.
C9_ResolverExactSet ==
    [][ \A cid \in 1..2 : \A mm \in QueryMonths :
          (AnswerableQuery(cid, mm) /\ Answers(cid, mm))
          => candidates' = MatchingUnbooked(cid, BookYear, mm) ]_vars

\* C9 amended: the resolver returns no pair that is booked, weekday-mismatched,
\* outside the month or dated before today, and returns every unbooked
\* weekday-matching pair of the month dated after today; so when today precedes
\* the month a Monday-only slot yields exactly the month's Mondays minus the
\* booked ones.
C9_ResolverExactSetNotPast ==
    [][ \A cid \in 1..2 : \A mm \in QueryMonths :
          (AnswerableQuery(cid, mm) /\ Answers(cid, mm))
          => LET matching == MatchingUnbooked(cid, BookYear, mm)
             IN  /\ query'.err = "none"
                 /\ candidates' \subseteq {p \in matching : ~DateBefore(p.when, today)}
                 /\ {p \in matching : DateBefore(today, p.when)} \subseteq candidates'
                 /\ (cid = 1 /\ mm = BookMonth
                        /\ DateBefore(today, MkDate(BookYear, BookMonth, 1)))
                    => {p.when.d : p \in {q \in candidates' : q.time_slot_id = 1}}
                         = {4, 11, 18, 25}
                             \ {b.when.d : b \in {x \in bookings : x.time_slot_id = 1}} ]_vars

\* a month view answered after Monday 4 March was booked on the Monday-only slot
C9_Witness ==
    /\ query = [calendar_id |-> 1, y |-> BookYear, m |-> BookMonth, err |-> "none"]
    /\ DateBefore(today, MkDate(BookYear, BookMonth, 1))
    /\ RowsFor(bookings, 1, MkDate(BookYear, BookMonth, 4)) # {}
    /\ {p.when.d : p \in {q \in candidates : q.time_slot_id = 1}} = {11, 18, 25}

\* the reserve call of guest g ends successfully in this step
Succeeds(g) == req[g].pc # "done" /\ req'[g].pc = "done" /\ req'[g].outcome = "ok"

\* C10: a successful reserve adds exactly one Booking row and leaves every
\* User, Calendar, TimeSlot and other Booking unchanged; a rejected or aborted
\* reserve, and every intermediate step, leaves the persistent state unchanged.
C10_ReserveFrame ==
    [][ /\ \A g \in Guests :
             Succeeds(g)
             => /\ bookings \subseteq bookings'
                /\ Cardinality(bookings' \ bookings) = 1
                /\ \A b \in bookings' \ bookings :
                      /\ b.time_slot_id = req'[g].time_slot_id
                      /\ b.when = req'[g].when
                      /\ b.guest_id = g
                /\ users' = users
                /\ calendars' = calendars
                /\ time_slots' = time_slots
        /\ (~(\E g \in Guests : Succeeds(g))) => table_vars' = table_vars ]_vars

\* one guest has booked Monday 4 March while the other's call was aborted
\* or rejected
C10_Witness ==
    \E g1 \in Guests : \E g2 \in Guests :
        /\ req[g1].pc = "done"
        /\ req[g1].outcome = "ok"
        /\ \E b \in bookings : b.guest_id = g1 /\ b.when = req[g1].when
                               /\ b.time_slot_id = req[g1].time_slot_id
        /\ req[g2].pc = "done"
        /\ req[g2].outcome \in {"aborted", "ValidationError", "DuplicateBookingError"}


(***************************************************************************)
(* Claims about signup                                                     *)
(***************************************************************************)
\* C11: whatever the interleaving of concurrent signup requests, no two rows
\* of "users" share a username and no two share an email.
C11_UniqueUsernameAndEmail ==
    \A a, b \in users :
        (a.username = b.username \/ a.email = b.email) => a = b

\* a request that passed both pre-checks lost the race at its commit
C11_Witness ==
    \E p, q \in SignupProcs :
        /\ signups[p].outcome = "ok"
        /\ signups[q].at = "commit"
        /\ signups[q].outcome # "ok"
        /\ signups[q].username # signups[p].username
        /\ signups[q].email = signups[p].email

\* the signup call of request p runs its first step
SignupStarts(p) == signups[p].pc = "idle" /\ signups'[p].pc # "idle"

\* the signup call of request p ends in this step
SignupEnds(p) == signups[p].pc # "done" /\ signups'[p].pc = "done"

UsernameTaken(tbl, u) == \E r \in tbl : r.username = u
EmailTaken(tbl, e) == \E r \in tbl : r.email = e

\* C12: a signup whose username an existing User already has is rejected with
\* DuplicatedUsernameError, and the rows of "users" are the same after the
\* rejected call as before it.
C12_DuplicateUsernameRejected ==
    [][ \A p \in SignupProcs :
            /\ (SignupStarts(p) /\ UsernameTaken(users, signups'[p].username))
               => /\ SignupEnds(p)
                  /\ signups'[p].outcome = "DuplicatedUsernameError"
            /\ (SignupEnds(p) /\ signups'[p].outcome = "DuplicatedUsernameError")
               => users' = users ]_vars

\* a username of the fixtures was refused although the email was new
C12_Witness ==
    \E p \in SignupProcs :
        /\ signups[p].pc = "done"
        /\ signups[p].at = "check_username"
        /\ signups[p].outcome = "DuplicatedUsernameError"
        /\ UsernameTaken(AccountUsers, signups[p].username)
        /\ ~EmailTaken(users, signups[p].email)

C18_SignupCreatesOneUser ==
    [][ \A p \in SignupProcs :
            \* the payload stays what the caller sent
            /\ (signups[p].pc # "idle")
               => /\ signups'[p].username = signups[p].username
                  /\ signups'[p].email = signups[p].email
                  /\ signups'[p].display_name = signups[p].display_name
            \* with both unused, no step of the call rejects it
            /\ (signups'[p] # signups[p]
                    /\ ~UsernameTaken(users, signups'[p].username)
                    /\ ~EmailTaken(users, signups'[p].email))
               => /\ signups'[p].outcome \in {"none", "ok"}
                  /\ signups[p].pc = "commit" => signups'[p].outcome = "ok"
            \* the call that succeeds adds the one row it returns
            /\ (SignupEnds(p) /\ signups'[p].outcome = "ok")
               => /\ users \subseteq users'
                  /\ Cardinality(users' \ users) = 1
                  /\ \A r \in users' \ users :
                        /\ r.username = signups[p].username
                        /\ r.email = signups[p].email
                        /\ r.display_name = signups[p].display_name
                        /\ r.is_host = FALSE
                        /\ r.id = signups'[p].user_id
                        /\ \A o \in users : o.id # r.id ]_vars

\* the payload of the signup test was accepted next to the rows of the fixtures
C18_Witness ==
    \E p \in SignupProcs :
        /\ signups[p].outcome = "ok"
        /\ signups[p].username = "test"
        /\ \E r \in users :
              /\ r.id = signups[p].user_id
              /\ r.username = "test"
              /\ r.email = "test@example.com"
              /\ r.is_host = FALSE
        /\ AccountUsers \subseteq users

\* the pre-checks of request p have passed and its INSERT breaks a constraint
LosesAtCommit(p) ==
    /\ signups[p].pc = "commit"
    /\ signups'[p].pc = "done"
    /\ UsernameTaken(users, signups[p].username) \/ EmailTaken(users, signups[p].email)

\* C19: when a signup passes both pre-checks but its commit fails because of a
\* concurrent insert, the caller gets DuplicatedEmailError when the email
\* constraint was violated and DuplicatedUsernameError when the username
\* constraint was violated, never the raw IntegrityError, and the losing
\* request creates no row.
C19_CommitFailureMapped ==
    [][ \A p \in SignupProcs :
            LosesAtCommit(p)
            => /\ users' = users
               /\ signups'[p].user_id = 0
               /\ signups'[p].outcome \in {"DuplicatedEmailError", "DuplicatedUsernameError"}
               /\ signups'[p].outcome = "DuplicatedEmailError"
                  => EmailTaken(users, signups[p].email)
               /\ signups'[p].outcome = "DuplicatedUsernameError"
                  => UsernameTaken(users, signups[p].username) ]_vars

\* two requests with one username and different emails passed the pre-checks;
\* the second commit broke the username constraint
C19_Witness ==
    \E p, q \in SignupProcs :
        /\ signups[p].outcome = "ok"
        /\ signups[q].at = "commit"
        /\ signups[q].outcome = "DuplicatedUsernameError"
        /\ signups[q].username = signups[p].username
        /\ signups[q].email # signups[p].email
        /\ signups[q].user_id = 0


(***************************************************************************)
(* Claims about the calendar view, user_detail, Calendar rows and login    *)
(***************************************************************************)
\* the User rows with the username of the last call, and their Calendar rows
CalledUsers == {r \in users : r.username = call.username}
CalledCalendars == {c \in calendars : \E r \in CalledUsers : c.host_id = r.id}

\* C14: host_calendar_detail returns the detailed view, which includes
\* google_calendar_id, exactly when the viewer is authenticated and is the
\* calendar's host; an authenticated non-host and an anonymous viewer get the
\* restricted view, which never contains google_calendar_id.
C14_DetailOnlyForHost ==
    (call.op = "host_calendar_detail" /\ CalledCalendars # {})
    => /\ call.outcome = "ok"
       /\ \E v \in call.view :
             /\ call.view = {v}
             /\ v.calendar_id \in {c.id : c \in CalledCalendars}
             /\ IF call.viewer # 0 /\ call.viewer \in {r.id : r \in CalledUsers}
                THEN v.kind = "CalendarDetailOut" /\ "google_calendar_id" \in v.keys
                ELSE v.kind = "CalendarOut" /\ "google_calendar_id" \notin v.keys

\* C15: host_calendar_detail called with a host_username that matches no User,
\* or a User who has no Calendar, ends in NotFoundError for every viewer, not
\* in another failure and not in a returned view.
C15_MissingHostOrCalendarNotFound ==
    (call.op = "host_calendar_detail" /\ CalledCalendars = {})
    => /\ call.outcome = "NotFoundError"
       /\ call.view = {}

\* C16: user_detail(username) returns the stored User whose username equals
\* the argument when one exists and raises HTTP 404 otherwise; the rows of
\* "users" are unchanged in both cases.
C16_UserDetail ==
    [][ call'.op = "user_detail"
        => /\ users' = users
           /\ IF \E r \in users : r.username = call'.username
              THEN /\ call'.outcome = "ok"
                   /\ call'.rows = {r \in users : r.username = call'.username}
                   /\ Cardinality(call'.rows) = 1
              ELSE /\ call'.outcome = "HTTP_404_NOT_FOUND"
                   /\ call'.rows = {} ]_vars

\* the guest was looked up next to the host and came back alone
C16_Witness ==
    /\ call.op = "user_detail"
    /\ call.username = "puddingcafe"
    /\ call.outcome = "ok"
    /\ Cardinality(users) = 2
    /\ \A r \in call.rows : r.id = 2

\* C17: each host User owns at most one Calendar: no two rows of "calendars"
\* have the same host_id, whatever Calendar creations are attempted.
C17_OneCalendarPerHost ==
    \A a, b \in calendars : a.host_id = b.host_id => a = b

\* a second Calendar for a host who has one was refused
C17_Witness ==
    /\ call.op = "create_calendar"
    /\ call.outcome = "IntegrityError"
    /\ \E c \in calendars : c.host_id = call.viewer

\* C20: login issues an access token, in the body and as the auth cookie,
\* exactly when a User with the given username exists and the given password
\* verifies against that user's stored credential; an unknown username gives
\* UserNotFoundError, a wrong password PasswordMismatchError, neither with a
\* token or cookie; the token's subject is the username.
C20_LoginIssuesToken ==
    (call.op = "login")
    => IF CalledUsers = {}
       THEN call.outcome = "UserNotFoundError" /\ call.token = {} /\ call.cookie = {}
       ELSE IF \E r \in CalledUsers : r.password = [hashed |-> TRUE, text |-> call.password]
       THEN /\ call.outcome = "ok"
            /\ call.token # {}
            /\ call.cookie = call.token
            /\ \A t \in call.token : t.sub = call.username
       ELSE call.outcome = "PasswordMismatchError" /\ call.token = {} /\ call.cookie = {}


(***************************************************************************)
(* Claims about the session dependencies                                   *)
(***************************************************************************)
\* the token of the last call: its signature is good
SignedTokens == {t \in call.auth : t.signed}

\* C21: get_user rejects a validly signed token with ExpiredTokenError exactly
\* when the current time is later than the token's exp: a token whose exp lies
\* in the future, by any amount, is accepted, and a token whose exp has passed
\* is rejected as expired rather than as invalid.
C21_ExpiredExactlyWhenPastExp ==
    (call.op = "get_user" /\ SignedTokens # {})
    => \A t \in SignedTokens :
          IF call.now > t.exp
          THEN call.outcome = "ExpiredTokenError"
          ELSE call.outcome = "ok"


\* the last call went through one of the identity dependencies
Resolving == call.op \in {"get_user", "get_current_user", "get_current_user_optional"}

\* what the dependency of the last call gives when there is nobody to return:
\* None where a viewer is optional, UserNotFoundError where one is required
Nobody ==
    IF call.op = "get_current_user"
    THEN call.outcome = "UserNotFoundError" /\ call.rows = {}
    ELSE call.outcome = "ok" /\ call.rows = {}

\* C22: identity resolution never yields a user other than the token's
\* subject: a user U is returned only when the token decodes with sub =
\* U.username; with no token get_user returns None, so the optional dependency
\* yields an anonymous viewer and the required one raises UserNotFoundError; a
\* token that cannot be decoded raises InvalidTokenError in both; a valid
\* token whose subject matches no User yields None (optional) or
\* UserNotFoundError (required).
C22_ResolvesOnlyTokenSubject ==
    Resolving
    => /\ \A u \in call.rows :
             \E t \in SignedTokens : t.exp >= call.now /\ t.sub = u.username
       /\ call.auth = {} => Nobody
       /\ \A t \in call.auth :
             (~t.signed \/ t.exp < call.now) => call.outcome = "InvalidTokenError"
       /\ \A t \in SignedTokens :
             (t.exp >= call.now /\ ~UsernameTaken(users, t.sub)) => Nobody


(***************************************************************************)
(* Claims about update_user                                                *)
(***************************************************************************)
\* what update_user may do to the row r of the authenticated user, giving n:
\* only columns the payload sets take the payload's value, the password stays
UpdatesOnlySetFields(r, n, payload) ==
    /\ n.id = r.id
    /\ n.username = r.username
    /\ n.is_host = r.is_host
    /\ n.password = r.password
    /\ n.display_name \in
           (IF payload.display_name = "" THEN {} ELSE {payload.display_name})
               \cup {r.display_name}
    /\ n.email \in (IF payload.email = "" THEN {} ELSE {payload.email}) \cup {r.email}

\* C23: update_user changes only the row of the authenticated user and only
\* the fields explicitly set in the payload: the stored password is never
\* changed by it, fields not set in the payload keep their values, and every
\* other User row is unchanged.
C23_UpdateOnlySetFields ==
    [][ call'.op = "update_user"
        => /\ Cardinality(users') = Cardinality(users)
           /\ \A r \in users :
                 IF r.id # call'.viewer THEN r \in users'
                 ELSE \E n \in users' :
                         /\ UpdatesOnlySetFields(r, n, call'.payload)
                         /\ n.updated_at = r.updated_at ]_vars

\* C23, amended: as C23, except that the column updated_at of the
\* authenticated user's row is refreshed by the update.
C23_UpdateOnlySetFieldsAndUpdatedAt ==
    [][ call'.op = "update_user"
        => /\ Cardinality(users') = Cardinality(users)
           /\ \A r \in users :
                 IF r.id # call'.viewer THEN r \in users'
                 ELSE \E n \in users' :
                         /\ UpdatesOnlySetFields(r, n, call'.payload)
                         /\ n.updated_at \in {r.updated_at, call'.now} ]_vars

\* the host changed the display name in a request that also carried a new
\* password: the name is the new one, the stored password the old one, and
\* the guest's row is as it was inserted
C23_Witness ==
    /\ call.op = "update_user"
    /\ call.outcome = "ok"
    /\ call.viewer = 1
    /\ call.payload.display_name = "pudding"
    /\ call.payload.password = "newpass12"
    /\ \E n \in users :
          /\ n.id = 1
          /\ n.display_name = "pudding"
          /\ n.password = [hashed |-> TRUE, text |-> "testtest"]
          /\ n.updated_at = call.now
    /\ \E g \in users : g.id = 2 /\ g.updated_at = 0 /\ g.display_name = "puddingcafe"


(***************************************************************************)
(* Claims about the order of the signup pre-checks                         *)
(***************************************************************************)
\* C24: signup checks the username before the email: a signup whose username
\* and email are both already taken, by the same or by different users, is
\* rejected with DuplicatedUsernameError, never with DuplicatedEmailError, and
\* the pre-checks report DuplicatedEmailError only when the username is unused.
C24_UsernameCheckedFirst ==
    [][ \A p \in SignupProcs :
            /\ (SignupStarts(p)
                    /\ UsernameTaken(users, signups'[p].username)
                    /\ EmailTaken(users, signups'[p].email))
               => /\ SignupEnds(p)
                  /\ signups'[p].outcome = "DuplicatedUsernameError"
            \* the email pre-check is reached only past the username pre-check
            /\ (SignupStarts(p) /\ UsernameTaken(users, signups'[p].username))
               => signups'[p].pc # "check_email"
            /\ (SignupEnds(p) /\ signups'[p].outcome = "DuplicatedEmailError"
                    /\ signups'[p].at # "commit")
               => /\ signups[p].pc = "check_email"
                  /\ signups'[p].at = "check_email" ]_vars

\* the host's username with the guest's email was refused for its username
C24_Witness ==
    \E p \in SignupProcs :
        /\ signups[p].pc = "done"
        /\ signups[p].at = "check_username"
        /\ signups[p].outcome = "DuplicatedUsernameError"
        /\ signups[p].username = "puddingcamp"
        /\ signups[p].email = "puddingcafe@example.com"

====
